---- MODULE Spec2Model ----
(***************************************************************************)
(* Model of the repository's three MicroPython scripts.  The board runs    *)
(* one of them, chosen when it is started (program):                       *)
(*   src/temperature_control.py  the DHT22 threshold controller,           *)
(*   src/led_blink.py            the LED blink demonstration,              *)
(*   src/dht22_sensor_read.py    the DHT22 monitor.                        *)
(*                                                                         *)
(* Temperatures are integers: a raw sensor value is in hundredths of a     *)
(* degree Celsius, a value rounded by round(t, 1) is in tenths, so the     *)
(* threshold 30.0 is 300.  A Python value that may be None is a sequence:  *)
(* <<>> is None and <<v>> is the value v.                                  *)
(*                                                                         *)
(* The program is cut at every point where a KeyboardInterrupt can be      *)
(* delivered between two statements that change the relay, the tracked     *)
(* state or the LED; pc names the next statement to run.                   *)
(***************************************************************************)
EXTENDS Integers, Sequences, FiniteSets

\* ---------------------------------------------------------------- bounds
\* reading_count is unbounded in the program; the model stops the loop here.
MaxCycles == 6

\* ------------------------------------------------------------- constants
TEMPERATURE_THRESHOLD == 300
ON_STATE == 1
OFF_STATE == 0

None == <<>>
Some(v) == <<v>>
Val(x) == x[1]

\* Raw temperatures the sensor may deliver (hundredths of a degree):
\* 28.0, 29.9, 30.0, 30.04, 30.05, 30.1, 31.0, 31.5.
RawTemps == {2800, 2990, 3000, 3004, 3005, 3010, 3100, 3150}

\* Raw humidities the sensor may deliver (hundredths of a percent):
\* 45.5 and 60.04.
RawHums == {4550, 6004}

\* round(temperature, 1).  A raw value halfway between two tenths goes to
\* either neighbour: which one depends on the float the build stores.
Round1(raw) ==
    LET q == raw \div 10
        r == raw % 10
    IN  IF r < 5 THEN {q} ELSE IF r > 5 THEN {q + 1} ELSE {q, q + 1}

\* The outcomes of one dht_sensor.read() transaction.
SensorOutcomes ==
    [kind : {"ok"}, raw : RawTemps] \cup
    {[kind |-> "none", raw |-> 0], [kind |-> "raise", raw |-> 0]}

VARIABLES
    pc,                   \* the next statement of the program
    current_relay_state,  \* the global flag, line 47
    relay,                \* the relay's physical output (toggle() flips it)
    led,                  \* the value last written to the LED pin
    temperature,          \* main()'s local: None or a rounded temperature
    reading_count,        \* main()'s local counter
    raisedBy,             \* what raised the exception that left main()
    exitVia,              \* which handler ended the program
    humidity,             \* main()'s local: None or a rounded humidity
    \* history, read by no statement of the program
    relay0,               \* the relay's physical output at power-up
    cmds,                 \* every relay.toggle() issued, with site and intent
    cyc,                  \* the events of the current cycle, in order
    atStart,              \* tracked state, relay and LED at the cycle's start
    lastFed,              \* the reading fed to the controller in the last
                          \* earlier cycle that fed one, or None
    ref,                  \* the controller run on the successful readings only
    scenOk,               \* every cycle so far read the scenario's reading
    hist,                 \* of the current cycle: the raw temperature read,
                          \* the value passed to the controller, the status
                          \* report; of the exit: where the interrupt landed
                          \* and whether the handler's own toggle raised
    \* which script runs, and the state of the other two scripts
    program,
    blink,                \* led_blink.py: pc, LED value, blink_number, commands
    mon                   \* dht22_sensor_read.py: pc, reading_count, the pair
                          \* read_sensor_data returned, the sensor's outcome

\* The state of the scripts other than temperature_control.py.
other == <<program, blink, mon>>

\* The state of temperature_control.py and its history.
ctl == <<pc, current_relay_state, relay, led, temperature, reading_count,
         raisedBy, exitVia, humidity, relay0, cmds, cyc, atStart, lastFed,
         ref, scenOk, hist>>

vars == <<pc, current_relay_state, relay, led, temperature, reading_count,
          raisedBy, exitVia, relay0, cmds, cyc, atStart, lastFed, ref, scenOk,
          humidity, hist, program, blink, mon>>

\* The scenario of the specification: 28.0, 31.0, 31.5, 29.9, 30.0, 30.1.
Scenario == <<280, 310, 315, 299, 300, 301>>

Cmd(site, cmd) == [site |-> site, cmd |-> cmd]

Count(s, e) == Cardinality({i \in DOMAIN s : s[i] = e})

SiteCmds(site) == SelectSeq(cmds, LAMBDA c : c.site = site)

Kinds(s) == [i \in DOMAIN s |-> s[i].cmd]

Snapshot == [state |-> current_relay_state, relay |-> relay, led |-> led]

\* ---------------------------------------------------------------- guards
\* line 88: temperature > TEMPERATURE_THRESHOLD
Above_AtOrAbove(t) == t >= TEMPERATURE_THRESHOLD
Above(t) == t > TEMPERATURE_THRESHOLD

\* lines 88-90: the activation branch is taken
Activate_Level(t, st) == Above(t)
Activate_Deadband(t, st) == t > TEMPERATURE_THRESHOLD + 5 /\ ~st
Activate(t, st) == Above(t) /\ ~st

\* lines 98-100: the deactivation branch is taken
Deactivate_Level(t, st) == ~Above(t)
Deactivate(t, st) == ~Above(t) /\ st

\* lines 68-70 and 76-78: what read_temperature returns on a failed read
FailedReading_Sentinel == Some(0)
FailedReading == None

\* line 177: the startup guard
StartupNeedsToggle == current_relay_state

\* line 187: the KeyboardInterrupt handler's guard
InterruptNeedsToggle_Always == TRUE
InterruptNeedsToggle == current_relay_state

\* line 195: the Exception handler's guard
ErrorNeedsToggle == current_relay_state

\* control_relay_based_on_temperature run as one step from tracked state st:
\* the new tracked state and the relay commands it issues.
ControlStep(t, st) ==
    IF Activate(t, st) THEN [state |-> TRUE, cmds |-> <<"ON">>]
    ELSE IF Deactivate(t, st) THEN [state |-> FALSE, cmds |-> <<"OFF">>]
    ELSE [state |-> st, cmds |-> <<>>]

\* ------------------------------------------------------------------ Init
\* Module level, lines 38-47.  The relay's output at power-up is not set by
\* the program; the LED pin is low after reset.
NoHist ==
    [raw |-> None, fed |-> None, report |-> None, interruptedAt |-> "none",
     handlerRaised |-> FALSE]

Programs == {"temperature_control", "led_blink", "dht22_sensor_read"}

Init ==
    /\ program \in Programs
    /\ pc = IF program = "temperature_control" THEN "boot" ELSE "off"
    /\ current_relay_state = FALSE
    /\ relay \in IF program = "temperature_control" THEN BOOLEAN ELSE {FALSE}
    /\ relay0 = relay
    /\ led = OFF_STATE
    /\ temperature = None
    /\ reading_count = 0
    /\ raisedBy = "none"
    /\ exitVia = "none"
    /\ cmds = <<>>
    /\ cyc = <<>>
    /\ atStart = [state |-> FALSE, relay |-> relay, led |-> OFF_STATE]
    /\ lastFed = None
    /\ ref = [state |-> FALSE, cmds |-> <<>>]
    /\ scenOk = TRUE
    /\ humidity = None
    /\ hist = NoHist
    /\ blink = [pc |-> IF program = "led_blink" THEN "start" ELSE "off",
                led |-> OFF_STATE, blink_number |-> 0, cmds |-> <<>>]
    /\ mon = [pc |-> IF program = "dht22_sensor_read" THEN "loop_top" ELSE "off",
              reading_count |-> 0, result |-> <<None, None>>,
              outcome |-> <<None, None>>, note |-> "none"]

\* --------------------------------------------------------------- actions
\* lines 174-182: the startup block, up to the call of main().
Startup ==
    /\ pc = "boot"
    /\ IF StartupNeedsToggle
         THEN /\ relay' = ~relay
              /\ cmds' = Append(cmds, Cmd("startup", "OFF"))
         ELSE UNCHANGED <<relay, cmds>>
    /\ current_relay_state' = FALSE
    /\ pc' = "loop_top"
    /\ UNCHANGED <<led, temperature, reading_count, raisedBy, exitVia, relay0,
                   cyc, atStart, lastFed, ref, scenOk>>
    /\ UNCHANGED <<humidity, hist, other>>

\* lines 150-152: a cycle begins.
LoopTop ==
    /\ pc = "loop_top"
    /\ reading_count' = reading_count + 1
    /\ cyc' = <<>>
    /\ atStart' = Snapshot
    /\ pc' = "read_temperature"
    /\ hist' = [hist EXCEPT !.raw = None, !.fed = None, !.report = None]
    /\ UNCHANGED <<current_relay_state, relay, led, temperature, raisedBy,
                   exitVia, relay0, cmds, lastFed, ref, scenOk>>
    /\ UNCHANGED <<humidity, other>>

\* line 158: temperature is not None
HasReading_Always(t) == TRUE
HasReading(t) == t # None

\* lines 155, 64-65: read_temperature is called and starts the sensor
\* transaction dht_sensor.read(); at pc "temp_txn" it is in progress.
\* ReadTemperature, lines 65-78 and 158, is its end: a read that gives no
\* temperature, or raises, is reported and gives FailedReading; a
\* temperature is rounded to one decimal place.
BeginTemperatureRead ==
    /\ pc = "read_temperature"
    /\ pc' = "temp_txn"
    /\ UNCHANGED <<current_relay_state, relay, led, temperature, reading_count,
                   raisedBy, exitVia, relay0, cmds, cyc, atStart, lastFed, ref,
                   scenOk>>
    /\ UNCHANGED <<humidity, hist, other>>

ReadTemperature ==
    /\ pc = "temp_txn"
    /\ \E o \in SensorOutcomes :
         IF o.kind = "ok"
           THEN \E v \in Round1(o.raw) :
                  /\ temperature' = Some(v)
                  /\ hist' = [hist EXCEPT !.raw = Some(o.raw)]
                  /\ cyc' = Append(cyc, "temp_ok")
                  /\ ref' = [state |-> ControlStep(v, ref.state).state,
                             cmds |-> ref.cmds \o ControlStep(v, ref.state).cmds]
                  /\ scenOk' = (/\ scenOk
                                /\ reading_count <= Len(Scenario)
                                /\ v = Scenario[reading_count])
           ELSE /\ temperature' = FailedReading
                /\ hist' = hist
                /\ cyc' = cyc \o <<"temp_failed", "fail_report">>
                /\ ref' = ref
                /\ scenOk' = FALSE
    /\ pc' = IF HasReading(temperature') THEN "read_humidity" ELSE "retry"
    /\ UNCHANGED <<current_relay_state, relay, led, reading_count, raisedBy,
                   exitVia, relay0, cmds, atStart, lastFed>>
    /\ UNCHANGED <<humidity, other>>

\* line 159: round(dht_sensor.read()[1], 1), a second sensor transaction
\* outside any try; at pc "hum_txn" it is in progress.  A read that raises,
\* or gives None (round(None, 1) is a TypeError), leaves main() with an
\* exception and humidity unassigned.
BeginHumidityRead ==
    /\ pc = "read_humidity"
    /\ pc' = "hum_txn"
    /\ UNCHANGED <<current_relay_state, relay, led, temperature, reading_count,
                   raisedBy, exitVia, relay0, cmds, cyc, atStart, lastFed, ref,
                   scenOk>>
    /\ UNCHANGED <<humidity, hist, other>>

ReadHumidity ==
    /\ pc = "hum_txn"
    /\ \E kind \in {"ok", "none", "raise"} :
         IF kind = "ok"
           THEN /\ pc' = "control"
                /\ raisedBy' = raisedBy
                /\ \E h \in RawHums : \E v \in Round1(h) : humidity' = Some(v)
           ELSE /\ pc' = "raised"
                /\ raisedBy' = "humidity_read"
                /\ humidity' = humidity
    /\ cyc' = Append(cyc, "hum_read")
    /\ UNCHANGED <<current_relay_state, relay, led, temperature, reading_count,
                   exitVia, relay0, cmds, atStart, lastFed, ref, scenOk>>
    /\ UNCHANGED <<hist, other>>

\* line 162: the argument of control_relay_based_on_temperature
ControlArg_Unrounded == Some((Val(hist.raw) + 9) \div 10)
ControlArg == temperature

\* line 165: the first argument of display_status
DisplayArg == temperature

\* lines 162, 88-93: the controller is called, takes the activation branch
\* and toggles the relay.
ControlOn ==
    /\ pc = "control"
    /\ Activate(Val(ControlArg), current_relay_state)
    /\ relay' = ~relay
    /\ cmds' = Append(cmds, Cmd("loop", "ON"))
    /\ cyc' = cyc \o <<"control_call", "relay_on">>
    /\ pc' = "on_assign"
    /\ hist' = [hist EXCEPT !.fed = ControlArg]
    /\ UNCHANGED <<current_relay_state, led, temperature, reading_count,
                   raisedBy, exitVia, relay0, atStart, lastFed, ref, scenOk>>
    /\ UNCHANGED <<humidity, other>>

\* line 94
AssignOn ==
    /\ pc = "on_assign"
    /\ current_relay_state' = TRUE
    /\ pc' = "on_led"
    /\ UNCHANGED <<relay, led, temperature, reading_count, raisedBy, exitVia,
                   relay0, cmds, cyc, atStart, lastFed, ref, scenOk>>
    /\ UNCHANGED <<humidity, hist, other>>

\* line 97: blink_led(ON_STATE), lines 52-56
LedOn ==
    /\ pc = "on_led"
    /\ led' = ON_STATE
    /\ cyc' = Append(cyc, "led_on")
    /\ pc' = "display"
    /\ UNCHANGED <<current_relay_state, relay, temperature, reading_count,
                   raisedBy, exitVia, relay0, cmds, atStart, lastFed, ref,
                   scenOk>>
    /\ UNCHANGED <<humidity, hist, other>>

\* lines 162, 98-103: the controller is called, takes the deactivation
\* branch and toggles the relay.
ControlOff ==
    /\ pc = "control"
    /\ ~Activate(Val(ControlArg), current_relay_state)
    /\ Deactivate(Val(ControlArg), current_relay_state)
    /\ relay' = ~relay
    /\ cmds' = Append(cmds, Cmd("loop", "OFF"))
    /\ cyc' = cyc \o <<"control_call", "relay_off">>
    /\ pc' = "off_assign"
    /\ hist' = [hist EXCEPT !.fed = ControlArg]
    /\ UNCHANGED <<current_relay_state, led, temperature, reading_count,
                   raisedBy, exitVia, relay0, atStart, lastFed, ref, scenOk>>
    /\ UNCHANGED <<humidity, other>>

\* line 104
AssignOff ==
    /\ pc = "off_assign"
    /\ current_relay_state' = FALSE
    /\ pc' = "off_led"
    /\ UNCHANGED <<relay, led, temperature, reading_count, raisedBy, exitVia,
                   relay0, cmds, cyc, atStart, lastFed, ref, scenOk>>
    /\ UNCHANGED <<humidity, hist, other>>

\* line 107: blink_led(OFF_STATE), lines 52-56
LedOff ==
    /\ pc = "off_led"
    /\ led' = OFF_STATE
    /\ cyc' = Append(cyc, "led_off")
    /\ pc' = "display"
    /\ UNCHANGED <<current_relay_state, relay, temperature, reading_count,
                   raisedBy, exitVia, relay0, cmds, atStart, lastFed, ref,
                   scenOk>>
    /\ UNCHANGED <<humidity, hist, other>>

\* lines 162, 88-107: the controller is called and takes neither branch.
ControlNone ==
    /\ pc = "control"
    /\ ~Activate(Val(ControlArg), current_relay_state)
    /\ ~Deactivate(Val(ControlArg), current_relay_state)
    /\ cyc' = Append(cyc, "control_call")
    /\ pc' = "display"
    /\ hist' = [hist EXCEPT !.fed = ControlArg]
    /\ UNCHANGED <<current_relay_state, relay, led, temperature, reading_count,
                   raisedBy, exitVia, relay0, cmds, atStart, lastFed, ref,
                   scenOk>>
    /\ UNCHANGED <<humidity, other>>

\* lines 93 and 103: relay.toggle() raises (the expander's bus fails).
\* Whether the output had flipped when the error was raised is not
\* determined by this repository: both outcomes are possible.
ToggleRaises ==
    /\ pc = "control"
    /\ \/ Activate(Val(ControlArg), current_relay_state)
       \/ Deactivate(Val(ControlArg), current_relay_state)
    /\ \E flipped \in BOOLEAN : relay' = IF flipped THEN ~relay ELSE relay
    /\ cyc' = cyc \o <<"control_call", "relay_raise">>
    /\ hist' = [hist EXCEPT !.fed = ControlArg]
    /\ pc' = "raised"
    /\ raisedBy' = "relay_command"
    /\ UNCHANGED <<current_relay_state, led, temperature, reading_count,
                   exitVia, relay0, cmds, atStart, lastFed, ref, scenOk>>
    /\ UNCHANGED <<humidity, other>>

\* lines 97 and 107: led.value() raises; the LED is left as it was.
LedRaises ==
    /\ pc \in {"on_led", "off_led"}
    /\ cyc' = Append(cyc, "led_raise")
    /\ pc' = "raised"
    /\ raisedBy' = "led_command"
    /\ UNCHANGED <<current_relay_state, relay, led, temperature, reading_count,
                   exitVia, relay0, cmds, atStart, lastFed, ref, scenOk>>
    /\ UNCHANGED <<humidity, hist, other>>

\* line 165: display_status raises (a print fails).
DisplayRaises ==
    /\ pc = "display"
    /\ pc' = "raised"
    /\ raisedBy' = "display"
    /\ UNCHANGED <<current_relay_state, relay, led, temperature, reading_count,
                   exitVia, relay0, cmds, cyc, atStart, lastFed, ref, scenOk>>
    /\ UNCHANGED <<humidity, hist, other>>

\* line 165: display_status(temperature, humidity), lines 110-135
Display_Silent ==
    /\ pc = "display"
    /\ pc' = "sleep"
    /\ UNCHANGED <<current_relay_state, relay, led, temperature, reading_count,
                   raisedBy, exitVia, relay0, cmds, cyc, atStart, lastFed, ref,
                   scenOk>>
    /\ UNCHANGED <<humidity, hist, other>>

\* lines 118-133: what display_status(t, h) prints.
StatusReport(t, h) ==
    IF t # None
      THEN [temperature |-> t, humidity |-> h,
            relay_status |-> IF current_relay_state THEN "ON" ELSE "OFF",
            action |-> IF Above(Val(t)) THEN "Cooling required"
                       ELSE "Temperature normal"]
      ELSE [temperature |-> None, humidity |-> None, relay_status |-> "none",
            action |-> "No sensor data available"]

Display ==
    /\ pc = "display"
    /\ cyc' = Append(cyc, "status_report")
    /\ hist' = [hist EXCEPT !.report = Some(StatusReport(DisplayArg, humidity))]
    /\ pc' = "sleep"
    /\ UNCHANGED <<current_relay_state, relay, led, temperature, reading_count,
                   raisedBy, exitVia, relay0, cmds, atStart, lastFed, ref,
                   scenOk>>
    /\ UNCHANGED <<humidity, other>>

\* lines 166-167: print("Retrying sensor reading...")
Retry ==
    /\ pc = "retry"
    /\ cyc' = Append(cyc, "retry_note")
    /\ pc' = "sleep"
    /\ UNCHANGED <<current_relay_state, relay, led, temperature, reading_count,
                   raisedBy, exitVia, relay0, cmds, atStart, lastFed, ref,
                   scenOk>>
    /\ UNCHANGED <<humidity, hist, other>>

\* line 170: sleep(READ_INTERVAL), then back to the top of the loop.
Sleep ==
    /\ pc = "sleep"
    /\ reading_count < MaxCycles
    /\ lastFed' = IF Count(cyc, "control_call") > 0 THEN temperature ELSE lastFed
    /\ pc' = "loop_top"
    /\ UNCHANGED <<current_relay_state, relay, led, temperature, reading_count,
                   raisedBy, exitVia, relay0, cmds, cyc, atStart, ref, scenOk>>
    /\ UNCHANGED <<humidity, hist, other>>

\* Where a KeyboardInterrupt can be delivered: any statement inside the try.
InterruptiblePcs ==
    {"boot", "loop_top", "read_temperature", "temp_txn", "read_humidity",
     "hum_txn", "retry",
     "control", "on_assign", "on_led", "off_assign", "off_led", "display",
     "sleep"}

\* A relay.toggle() in an exit handler (lines 188 and 196): it returns, or
\* raises with the output flipped or not; the program ends either way.
ToggleOutcomes == {"done", "raised_flipped", "raised_unflipped"}

\* lines 184-190: the KeyboardInterrupt handler.
KeyboardInterrupt ==
    /\ pc \in InterruptiblePcs
    /\ IF InterruptNeedsToggle
         THEN \E out \in ToggleOutcomes :
                /\ relay' = IF out = "raised_unflipped" THEN relay ELSE ~relay
                /\ cmds' = Append(cmds, Cmd("interrupt", "OFF"))
                /\ hist' = [hist EXCEPT !.interruptedAt = pc,
                                        !.handlerRaised = (out # "done")]
         ELSE /\ hist' = [hist EXCEPT !.interruptedAt = pc]
              /\ UNCHANGED <<relay, cmds>>
    /\ pc' = "exited"
    /\ exitVia' = "interrupt"
    /\ UNCHANGED <<current_relay_state, led, temperature, reading_count,
                   raisedBy, relay0, cyc, atStart, lastFed, ref, scenOk>>
    /\ UNCHANGED <<humidity, other>>

\* lines 192-196: the Exception handler.
ExceptionHandler ==
    /\ pc = "raised"
    /\ IF ErrorNeedsToggle
         THEN \E out \in ToggleOutcomes :
                /\ relay' = IF out = "raised_unflipped" THEN relay ELSE ~relay
                /\ cmds' = Append(cmds, Cmd("error", "OFF"))
                /\ hist' = [hist EXCEPT !.handlerRaised = (out # "done")]
         ELSE UNCHANGED <<relay, cmds, hist>>
    /\ pc' = "exited"
    /\ exitVia' = "error"
    /\ UNCHANGED <<current_relay_state, led, temperature, reading_count,
                   raisedBy, relay0, cyc, atStart, lastFed, ref, scenOk>>
    /\ UNCHANGED <<humidity, other>>

\* ------------------------------------------------------- led_blink.py
\* src/led_blink.py line 20
BLINK_COUNT == 5

\* line 46: range(BLINK_COUNT) has another blink_number after i blinks
BlinkMore_OffByOne(i) == i <= BLINK_COUNT
BlinkMore(i) == i < BLINK_COUNT

\* lines 42-43: main() starts.
BlinkStart ==
    /\ blink.pc = "start"
    /\ blink' = [blink EXCEPT !.pc = "loop"]
    /\ UNCHANGED <<ctl, program, mon>>

\* lines 46-48: the next blink begins.
BlinkIterate ==
    /\ blink.pc = "loop"
    /\ BlinkMore(blink.blink_number)
    /\ blink' = [blink EXCEPT !.pc = "led_on"]
    /\ UNCHANGED <<ctl, program, mon>>

\* line 33: led.value(1)
BlinkOn ==
    /\ blink.pc = "led_on"
    /\ blink' = [blink EXCEPT !.pc = "sleep_on", !.led = ON_STATE,
                              !.cmds = Append(@, "ON")]
    /\ UNCHANGED <<ctl, program, mon>>

\* line 34: sleep(ON_DURATION)
BlinkSleepOn ==
    /\ blink.pc = "sleep_on"
    /\ blink' = [blink EXCEPT !.pc = "led_off"]
    /\ UNCHANGED <<ctl, program, mon>>

\* line 35: led.value(0)
BlinkOff ==
    /\ blink.pc = "led_off"
    /\ blink' = [blink EXCEPT !.pc = "sleep_off", !.led = OFF_STATE,
                              !.cmds = Append(@, "OFF")]
    /\ UNCHANGED <<ctl, program, mon>>

\* line 36: sleep(OFF_DURATION), then back to the for statement.
BlinkSleepOff ==
    /\ blink.pc = "sleep_off"
    /\ blink' = [blink EXCEPT !.pc = "loop", !.blink_number = @ + 1]
    /\ UNCHANGED <<ctl, program, mon>>

\* lines 46 and 50: the range is exhausted, main() returns.
BlinkFinish ==
    /\ blink.pc = "loop"
    /\ ~BlinkMore(blink.blink_number)
    /\ blink' = [blink EXCEPT !.pc = "done"]
    /\ UNCHANGED <<ctl, program, mon>>

BlinkNext ==
    \/ BlinkStart
    \/ BlinkIterate
    \/ BlinkOn
    \/ BlinkSleepOn
    \/ BlinkOff
    \/ BlinkSleepOff
    \/ BlinkFinish

\* ------------------------------------------------ dht22_sensor_read.py
\* Raw values of the monitor's sensor, in thousandths: temperatures 29.994,
\* 30.005, 31.506 and humidities 45.504, 80.006.
MonRawTemps == {29994, 30005, 31506}
MonRawHums == {45504, 80006}

\* src/dht22_sensor_read.py lines 48-49: round(x, DECIMAL_PLACES) with
\* DECIMAL_PLACES = 2, from thousandths to hundredths; a value halfway
\* goes to either neighbour.
Round2(raw) ==
    LET q == raw \div 10
        r == raw % 10
    IN  IF r < 5 THEN {q} ELSE IF r > 5 THEN {q + 1} ELSE {q, q + 1}

\* The outcomes of dht_sensor.read() at line 40: it raises, or gives a pair
\* in which either value may be None.
MonOutcomes ==
    [kind : {"pair"},
     t : {None} \cup {Some(x) : x \in MonRawTemps},
     h : {None} \cup {Some(x) : x \in MonRawHums}]
    \cup {[kind |-> "raise", t |-> None, h |-> None]}

\* line 43: temperature is None or humidity is None
MonInvalid(t, h) == t = None \/ h = None

\* line 45: what read_sensor_data returns for an invalid reading (t, h)
MonInvalidResult_AsRead(t, h) == <<t, h>>
MonInvalidResult(t, h) == <<None, None>>

\* read_sensor_data, lines 33-60: the pairs it may return on outcome o.
ReadSensorData(o) ==
    IF o.kind = "raise" THEN {<<None, None>>}
    ELSE IF MonInvalid(o.t, o.h) THEN {MonInvalidResult(o.t, o.h)}
    ELSE {<<Some(t), Some(h)>> :
            t \in Round2(Val(o.t)), h \in Round2(Val(o.h))}

\* lines 76-81: a cycle begins and reads the sensor.
MonRead ==
    /\ mon.pc = "loop_top"
    /\ \E o \in MonOutcomes : \E r \in ReadSensorData(o) :
         mon' = [mon EXCEPT !.pc = "check", !.reading_count = @ + 1,
                            !.result = r, !.outcome = <<o.t, o.h>>]
    /\ UNCHANGED <<ctl, program, blink>>

\* lines 84-89: the comfort check.
MonNote(t, h) ==
    IF t # None /\ h # None
      THEN IF Val(t) > 3000 THEN "Hot environment detected!"
           ELSE IF Val(h) > 8000 THEN "High humidity detected!"
           ELSE "none"
      ELSE "none"

MonCheck ==
    /\ mon.pc = "check"
    /\ mon' = [mon EXCEPT !.pc = "sleep",
                          !.note = MonNote(mon.result[1], mon.result[2])]
    /\ UNCHANGED <<ctl, program, blink>>

\* line 92: sleep(READ_INTERVAL), then back to the top of the loop.
MonSleep ==
    /\ mon.pc = "sleep"
    /\ mon.reading_count < MaxCycles
    /\ mon' = [mon EXCEPT !.pc = "loop_top"]
    /\ UNCHANGED <<ctl, program, blink>>

\* lines 98-99: KeyboardInterrupt ends the monitor.
MonInterrupt ==
    /\ mon.pc \in {"loop_top", "check", "sleep"}
    /\ mon' = [mon EXCEPT !.pc = "exited"]
    /\ UNCHANGED <<ctl, program, blink>>

Next ==
    \/ Startup
    \/ LoopTop
    \/ BeginTemperatureRead
    \/ ReadTemperature
    \/ BeginHumidityRead
    \/ ReadHumidity
    \/ ControlOn
    \/ AssignOn
    \/ LedOn
    \/ ControlOff
    \/ AssignOff
    \/ LedOff
    \/ ControlNone
    \/ ToggleRaises
    \/ LedRaises
    \/ DisplayRaises
    \/ Display
    \/ Retry
    \/ Sleep
    \/ KeyboardInterrupt
    \/ ExceptionHandler
    \/ BlinkStart
    \/ BlinkIterate
    \/ BlinkOn
    \/ BlinkSleepOn
    \/ BlinkOff
    \/ BlinkSleepOff
    \/ BlinkFinish
    \/ MonRead
    \/ MonCheck
    \/ MonSleep
    \/ MonInterrupt

Spec == Init /\ [][Next]_vars

\* led_blink.py runs no other thread and every sleep returns: a statement
\* that can run does run.
FairSpec == Spec /\ WF_vars(BlinkNext)

\* ---------------------------------------------------------------- claims
\* The statements inside one cycle: from the sensor read to the sleep.
CyclePcs == InterruptiblePcs \ {"boot", "loop_top"}

\* The controller has returned in this cycle.
ControlDone == pc \in {"display", "sleep"} /\ Count(cyc, "control_call") = 1

\* The reading fed before this cycle's was above the threshold.  Before any
\* reading the temperature counts as at or below it (the relay starts OFF).
PrevAbove == lastFed # None /\ Above(Val(lastFed))

RelayEvents == Count(cyc, "relay_on") + Count(cyc, "relay_off")

LedEvents == Count(cyc, "led_on") + Count(cyc, "led_off")

\* C1: in every cycle, the relay is commanded ON only when this cycle's
\* reading is above the threshold and the previous one was not, OFF only when
\* this cycle's reading is at or below the threshold and the previous one was
\* above; such a cycle issues that one command, and a cycle without a
\* crossing issues no relay command and no LED command.
C1_EdgeTriggered ==
    pc \in CyclePcs =>
      /\ Count(cyc, "relay_on") > 0 =>
           /\ Above(Val(temperature)) /\ ~PrevAbove
           /\ Count(cyc, "relay_on") = 1 /\ Count(cyc, "relay_off") = 0
      /\ Count(cyc, "relay_off") > 0 =>
           /\ ~Above(Val(temperature)) /\ PrevAbove
           /\ Count(cyc, "relay_off") = 1 /\ Count(cyc, "relay_on") = 0
      /\ Count(cyc, "led_on") > 0 => Count(cyc, "relay_on") = 1
      /\ Count(cyc, "led_off") > 0 => Count(cyc, "relay_off") = 1
      /\ ControlDone =>
           /\ Above(Val(temperature)) /\ ~PrevAbove =>
                Count(cyc, "relay_on") = 1 /\ Count(cyc, "led_on") = 1
           /\ ~Above(Val(temperature)) /\ PrevAbove =>
                Count(cyc, "relay_off") = 1 /\ Count(cyc, "led_off") = 1
           /\ Above(Val(temperature)) = PrevAbove =>
                RelayEvents = 0 /\ LedEvents = 0

\* A cycle whose reading stays above the threshold and issues no command,
\* after the loop has switched the relay at least three times.
C1_Witness ==
    /\ pc = "sleep" /\ ControlDone
    /\ Above(Val(temperature)) /\ PrevAbove
    /\ RelayEvents = 0
    /\ Len(SiteCmds("loop")) >= 3

C3_RelayOffAtExit ==
    (pc = "exited" /\ exitVia = "interrupt" /\ ~relay0 /\ ~hist.handlerRaised)
    => ~relay

\* C4: once the first cycle has begun, startup has issued exactly one OFF
\* command to the relay.
C4_StartupOff ==
    reading_count >= 1 => Kinds(SiteCmds("startup")) = <<"OFF">>

\* C5: in a cycle whose temperature read failed, read_temperature returned
\* None, the controller is never reached nor invoked, and the tracked state,
\* the relay output and the LED output are those of the cycle's start.
C5_FailedAcquisition ==
    (pc \in CyclePcs /\ Count(cyc, "temp_failed") > 0) =>
      /\ temperature = None
      /\ pc \in {"retry", "sleep"}
      /\ Count(cyc, "control_call") = 0
      /\ RelayEvents = 0 /\ LedEvents = 0
      /\ Snapshot = atStart

\* A failed cycle that ends while the relay is ON.
C5_Witness ==
    /\ pc = "sleep" /\ Count(cyc, "temp_failed") = 1
    /\ current_relay_state /\ atStart.state

\* C6: no failed sensor read leaves main(): the exception that ends the
\* program is never one raised by a sensor read of the cycle.
C6_SensorFailuresRecovered ==
    raisedBy # "humidity_read"

\* C7: a cycle that feeds the controller the reading the previous feeding
\* cycle fed issues no relay command and no LED command and leaves the
\* tracked state, the relay output and the LED output as they were.
C7_SameReadingTwice ==
    (ControlDone /\ lastFed = temperature) =>
      /\ RelayEvents = 0 /\ LedEvents = 0
      /\ Snapshot = atStart

\* The same reading above the threshold fed twice, the relay staying ON.
C7_Witness ==
    /\ pc = "sleep" /\ ControlDone
    /\ lastFed = temperature
    /\ Above(Val(temperature)) /\ current_relay_state

\* The relay commands the specification expects after each scenario cycle.
ScenarioExpected ==
    << <<"OFF">>, <<"OFF", "ON">>, <<"OFF", "ON">>, <<"OFF", "ON", "OFF">>,
       <<"OFF", "ON", "OFF">>, <<"OFF", "ON", "OFF", "ON">> >>

\* C8: while the cycles read 28.0, 31.0, 31.5, 29.9, 30.0, 30.1 in order, the
\* relay commands issued by the end of each cycle are OFF (startup), ON at
\* 31.0, OFF at 29.9, nothing at 30.0 and ON at 30.1, and no other.
C8_Scenario ==
    (scenOk /\ pc = "sleep") => Kinds(cmds) = ScenarioExpected[reading_count]

\* C9: at every cycle boundary the relay commands the loop has issued and
\* the tracked state are those of the controller run on the successful
\* readings alone; a failed cycle reports the failure once and never
\* invokes the controller.
C9_FailedCyclesTransparent ==
    /\ pc \in {"sleep", "loop_top"} =>
         /\ Kinds(SiteCmds("loop")) = ref.cmds
         /\ current_relay_state = ref.state
    /\ (pc \in CyclePcs /\ Count(cyc, "temp_failed") > 0) =>
         /\ Count(cyc, "fail_report") = 1
         /\ Count(cyc, "control_call") = 0

\* A failed cycle in the middle of a run that has switched the relay.
C9_Witness ==
    /\ pc = "sleep" /\ Count(cyc, "temp_failed") = 1
    /\ Len(ref.cmds) >= 2
    /\ Kinds(SiteCmds("loop")) = ref.cmds

\* C10: a cycle never holds more than one report; at the sleep step a cycle
\* whose temperature read succeeded holds one status report and no failure
\* report, and one whose read failed holds one failure report and no status
\* report.  (The failure report is the message of read_temperature; the
\* "Retrying sensor reading..." line names no failure.)
C10_OneReportPerCycle ==
    /\ pc \in CyclePcs =>
         Count(cyc, "status_report") + Count(cyc, "fail_report") <= 1
    /\ pc = "sleep" =>
         /\ Count(cyc, "temp_ok") = 1 =>
              Count(cyc, "status_report") = 1 /\ Count(cyc, "fail_report") = 0
         /\ Count(cyc, "temp_failed") = 1 =>
              Count(cyc, "fail_report") = 1 /\ Count(cyc, "status_report") = 0
         /\ Count(cyc, "temp_ok") + Count(cyc, "temp_failed") = 1

\* A successful cycle, not the first, that switched the relay ON and is at
\* its sleep step with its one status report.
C10_Witness ==
    /\ pc = "sleep" /\ reading_count >= 2
    /\ Count(cyc, "status_report") = 1
    /\ Count(cyc, "relay_on") = 1

\* The sensor transactions of the current cycle.
Transactions ==
    Count(cyc, "temp_ok") + Count(cyc, "temp_failed") + Count(cyc, "hum_read")

\* C11: a cycle at its sleep step has performed exactly one sensor
\* transaction, and no humidity came from a transaction other than the one
\* that gave the temperature.
C11_OneTransaction ==
    pc = "sleep" => (Transactions = 1 /\ Count(cyc, "hum_read") = 0)

\* The pcs at which a sensor transaction is in progress.
TxnPcs == {"temp_txn", "hum_txn"}

\* C12: the program never starts its shutdown from inside a sensor
\* transaction: a KeyboardInterrupt is not honored while dht_sensor.read()
\* is in progress.
C12_NoAbortedTransaction ==
    exitVia = "interrupt" => hist.interruptedAt \notin TxnPcs

\* C13: read_sensor_data returns two present values or (None, None), and a
\* status report that shows a temperature shows a present humidity.
C13_NeverPartial ==
    /\ \/ mon.result = <<None, None>>
       \/ mon.result[1] # None /\ mon.result[2] # None
    /\ (hist.report # None /\ Val(hist.report).temperature # None) =>
         Val(hist.report).humidity # None

\* The sensor gave a temperature without a humidity and read_sensor_data
\* returned (None, None).
C13_Witness ==
    /\ mon.pc = "check"
    /\ mon.outcome[1] # None /\ mon.outcome[2] = None
    /\ mon.result = <<None, None>>

\* A controller update is in progress: between relay.toggle() and the LED
\* command of the same branch.
UpdateInProgress == pc \in {"on_assign", "on_led", "off_assign", "off_led"}

\* C14: with the relay OFF at power-up, in every state in which no
\* controller update is in progress, up to and including program exit, the
\* LED is ON exactly when the relay output is ON.  (Stated for the runs in
\* which nothing raised and no interrupt cut an update short.)
C14_LedFollowsRelay ==
    (/\ ~relay0 /\ ~UpdateInProgress
     /\ raisedBy = "none" /\ ~hist.handlerRaised
     /\ hist.interruptedAt \notin {"on_assign", "on_led", "off_assign", "off_led"})
    => ((led = ON_STATE) <=> relay)

\* C15: for either power-up state of the relay, at every cycle boundary the
\* relay output is ON exactly when current_relay_state is True.
C15_RelayMatchesTrackedState ==
    (pc \in {"loop_top", "sleep"}) => (relay <=> current_relay_state)

\* C16: with the relay OFF at power-up, when an exception has left main()
\* and the Exception handler has run without its own toggle raising, the
\* relay output is OFF at exit.
C16_ErrorShutdown ==
    (pc = "exited" /\ exitVia = "error" /\ ~relay0 /\ ~hist.handlerRaised) =>
      ~relay

\* C17: once the controller has returned, current_relay_state is True
\* exactly when its argument was above the threshold; a status report shows
\* relay ON exactly when it shows "Cooling required", and OFF exactly when
\* it shows "Temperature normal".
C17_StateIsAbove ==
    /\ ControlDone =>
         (current_relay_state <=> Above(Val(hist.fed)))
    /\ hist.report # None =>
         /\ (Val(hist.report).relay_status = "ON") <=>
              (Val(hist.report).action = "Cooling required")
         /\ (Val(hist.report).relay_status = "OFF") <=>
              (Val(hist.report).action = "Temperature normal")

\* A report showing relay ON and "Cooling required" in a cycle that began
\* with the relay ON and did not switch it.
C17_Witness ==
    /\ pc = "sleep" /\ hist.report # None
    /\ Val(hist.report).relay_status = "ON"
    /\ Val(hist.report).action = "Cooling required"
    /\ Count(cyc, "relay_off") = 0 /\ atStart.state

\* C18: the controller and display_status get the same value, which is one
\* of the roundings of the raw temperature read in this cycle; a reading
\* that rounds to the threshold or below switches no relay ON, and no
\* report shows a temperature at or below the threshold in a cycle that
\* switched the relay ON.
C18_RoundedOnce ==
    /\ (pc \in CyclePcs /\ hist.fed # None) =>
         /\ hist.raw # None
         /\ Val(hist.fed) \in Round1(Val(hist.raw))
         /\ ~Above(Val(hist.fed)) => Count(cyc, "relay_on") = 0
    /\ (pc \in CyclePcs /\ hist.report # None) =>
         /\ Val(hist.report).temperature = hist.fed
         /\ Val(Val(hist.report).temperature) <= TEMPERATURE_THRESHOLD =>
              Count(cyc, "relay_on") = 0

\* The raw temperature 30.04 is reported as 30.0 and the relay stays OFF.
C18_Witness ==
    /\ pc = "sleep" /\ hist.raw = Some(3004)
    /\ hist.report # None
    /\ Val(hist.report).temperature = Some(300)
    /\ ~current_relay_state /\ RelayEvents = 0

\* The LED commands of a complete run of led_blink.py.
ExpectedBlinks ==
    [i \in 1..(2 * BLINK_COUNT) |-> IF i % 2 = 1 THEN "ON" ELSE "OFF"]

\* C19: led_blink.py always issues ON and OFF alternately, starting with
\* ON; when main() has returned it has issued BLINK_COUNT of each and the
\* LED is OFF; and main() does return.
C19_BlinkTerminates ==
    /\ [](/\ Len(blink.cmds) <= 2 * BLINK_COUNT
          /\ \A i \in DOMAIN blink.cmds : blink.cmds[i] = ExpectedBlinks[i])
    /\ [](blink.pc = "done" =>
            /\ blink.cmds = ExpectedBlinks
            /\ Count(blink.cmds, "ON") = BLINK_COUNT
            /\ Count(blink.cmds, "OFF") = BLINK_COUNT
            /\ blink.led = OFF_STATE)
    /\ (program = "led_blink" => <>(blink.pc = "done"))

\* main() of led_blink.py has returned after its blinks.
C19_Witness ==
    /\ blink.pc = "done"
    /\ blink.blink_number = BLINK_COUNT
    /\ Len(blink.cmds) = 2 * BLINK_COUNT

====
